---- MODULE Spec2Model ----
(***************************************************************************)
(* A model of the emotibit-data crate: the record decoder (types.rs), the  *)
(* TX refinement, the sync-triple extractor and the sync-map builder       *)
(* (parser.rs).                                                            *)
(*                                                                         *)
(* Text is modelled as a sequence of one-character strings, so that every  *)
(* conversion (number parsing, splitting, date-time parsing) is computed   *)
(* character by character as the code does.  f32/f64 values are modelled   *)
(* as records: Num(n) for the integer-valued number n, NaNf for NaN (the   *)
(* inputs drawn below hold no '.', no exponent and no infinity).           *)
(***************************************************************************)
EXTENDS Integers, Sequences, FiniteSets, TLC

VARIABLES record, packets, result, utc_offset

vars == <<record, packets, result, utc_offset>>

(***************************************************************************)
(* Result / Option values                                                  *)
(***************************************************************************)
Ok(x) == [ok |-> TRUE, v |-> x]

Err(m) == [ok |-> FALSE, err |-> m]

Some(x) == [some |-> TRUE, v |-> x]

None == [some |-> FALSE]

(***************************************************************************)
(* f64 / f32 values                                                        *)
(***************************************************************************)
Num(n) == [nan |-> FALSE, n |-> n]

NaNf == [nan |-> TRUE, n |-> 0]

\* a - b on f64
FSub(a, b) == IF a.nan \/ b.nan THEN NaNf ELSE Num(a.n - b.n)

\* f64::min: a NaN operand is ignored
FMin(a, b) == IF a.nan THEN b ELSE IF b.nan THEN a ELSE IF a.n <= b.n THEN a ELSE b

\* f64::max: a NaN operand is ignored
FMax(a, b) == IF a.nan THEN b ELSE IF b.nan THEN a ELSE IF a.n >= b.n THEN a ELSE b

\* a == b on f64: NaN equals nothing
FEq(a, b) == ~a.nan /\ ~b.nan /\ a.n = b.n

(***************************************************************************)
(* Characters and number parsing (core::str::parse)                        *)
(***************************************************************************)
Digits == {"0", "1", "2", "3", "4", "5", "6", "7", "8", "9"}

DigitVal == ("0" :> 0) @@ ("1" :> 1) @@ ("2" :> 2) @@ ("3" :> 3) @@ ("4" :> 4) @@
            ("5" :> 5) @@ ("6" :> 6) @@ ("7" :> 7) @@ ("8" :> 8) @@ ("9" :> 9)

AllDigits(s) == \A i \in 1..Len(s) : s[i] \in Digits

RECURSIVE DigitsValue(_)
DigitsValue(s) ==
    IF s = <<>> THEN 0
    ELSE 10 * DigitsValue(SubSeq(s, 1, Len(s) - 1)) + DigitVal[s[Len(s)]]

\* The longest digit strings the model parses; every integer type modelled
\* here holds every number of that many digits except u8.
MaxDigits == 9

\* <unsigned>::from_str: an optional '+', then one or more digits, no overflow
ParseUnsigned(s, max) ==
    LET body == IF s # <<>> /\ s[1] = "+" THEN Tail(s) ELSE s
    IN  IF body = <<>> \/ ~AllDigits(body) \/ Len(body) > MaxDigits THEN Err("ParseIntError")
        ELSE IF DigitsValue(body) > max THEN Err("ParseIntError")
        ELSE Ok(DigitsValue(body))

U8Max == 255

ParseU8(s) == ParseUnsigned(s, U8Max)

\* every number of at most MaxDigits digits is a u32
ParseU32(s) ==
    LET body == IF s # <<>> /\ s[1] = "+" THEN Tail(s) ELSE s
    IN  IF body = <<>> \/ ~AllDigits(body) \/ Len(body) > MaxDigits THEN Err("ParseIntError")
        ELSE Ok(DigitsValue(body))

\* i32::from_str: an optional sign, then one or more digits
ParseI32(s) ==
    LET neg  == s # <<>> /\ s[1] = "-"
        body == IF s # <<>> /\ s[1] \in {"+", "-"} THEN Tail(s) ELSE s
    IN  IF body = <<>> \/ ~AllDigits(body) \/ Len(body) > MaxDigits THEN Err("ParseIntError")
        ELSE Ok(IF neg THEN 0 - DigitsValue(body) ELSE DigitsValue(body))

\* f32/f64::from_str on the modelled alphabet: "NaN", or an optional sign and digits
ParseFloat(s) ==
    LET neg  == s # <<>> /\ s[1] = "-"
        body == IF s # <<>> /\ s[1] \in {"+", "-"} THEN Tail(s) ELSE s
    IN  IF body = <<"N", "a", "N">> THEN Ok(NaNf)
        ELSE IF body = <<>> \/ ~AllDigits(body) \/ Len(body) > MaxDigits
             THEN Err("ParseFloatError")
        ELSE Ok(Num(IF neg THEN 0 - DigitsValue(body) ELSE DigitsValue(body)))

\* str::trim (the only white space of the alphabet is the blank)
RECURSIVE trim(_)
trim(s) ==
    IF s = <<>> THEN s
    ELSE IF s[1] = " " THEN trim(Tail(s))
    ELSE IF s[Len(s)] = " " THEN trim(SubSeq(s, 1, Len(s) - 1))
    ELSE s

\* Itertools::join(",") of the fields
RECURSIVE join(_)
join(fields) ==
    IF fields = <<>> THEN <<>>
    ELSE IF Len(fields) = 1 THEN fields[1]
    ELSE fields[1] \o <<",">> \o join(Tail(fields))

\* str::split(','): the fields between the commas (one field for a text without comma)
RECURSIVE split(_)
split(s) ==
    IF \A i \in 1..Len(s) : s[i] # "," THEN <<s>>
    ELSE LET p == CHOOSE i \in 1..Len(s) : s[i] = "," /\ \A j \in 1..(i - 1) : s[j] # ","
         IN  <<SubSeq(s, 1, p - 1)>> \o split(SubSeq(s, p + 1, Len(s)))

(***************************************************************************)
(* types.rs: the payload decoder                                           *)
(***************************************************************************)
\* The arms of get_data_type: <<type tag text, DataType variant, payload kind>>
TagTable ==
    { << <<"R","B">>, "RB", "string" >>,     << <<"A","K">>, "AK", "string_vec" >>,
      << <<"E","A">>, "EA", "f32" >>,        << <<"E","L">>, "EL", "f32" >>,
      << <<"E","R">>, "ER", "f32" >>,        << <<"P","I">>, "PI", "u32" >>,
      << <<"P","R">>, "PR", "u32" >>,        << <<"P","G">>, "PG", "u32" >>,
      << <<"T","0">>, "T0", "f32" >>,        << <<"T","1">>, "T1", "f32" >>,
      << <<"T","H">>, "TH", "f32" >>,        << <<"A","X">>, "AX", "f32" >>,
      << <<"A","Y">>, "AY", "f32" >>,        << <<"A","Z">>, "AZ", "f32" >>,
      << <<"G","X">>, "GX", "f32" >>,        << <<"G","Y">>, "GY", "f32" >>,
      << <<"G","Z">>, "GZ", "f32" >>,        << <<"M","X">>, "MX", "i32" >>,
      << <<"M","Y">>, "MY", "i32" >>,        << <<"M","Z">>, "MZ", "i32" >>,
      << <<"B","I">>, "BI", "i32" >>,        << <<"S","A">>, "SA", "f32" >>,
      << <<"S","F">>, "SF", "f32" >>,        << <<"S","R">>, "SR", "f32" >>,
      << <<"B","V">>, "BV", "f32" >>,        << <<"H","R">>, "HR", "i32" >>,
      << <<"B","%">>, "BATLV", "u32" >>,     << <<"R","D">>, "RD", "string_vec" >>,
      << <<"U","N">>, "UN", "string_vec" >>, << <<"E","M">>, "EM", "string_vec" >>,
      << <<"T","L">>, "TL", "string" >>,     << <<"T","X">>, "TX", "string_vec" >>,
      << <<"L","M">>, "LM", "string" >> }

DataType(variant, payload) == [variant |-> variant, payload |-> payload]

\* record.iter().skip(index)
skip(rec, index) == SubSeq(rec, index + 1, Len(rec))

to_string(rec, index) == join(skip(rec, index))

to_string_vec(rec, index_from) == skip(rec, index_from)

\* to_vec keeping the fields that parse and dropping the others
to_vec_Lenient(rec, index_from, kind) ==
    LET fields == skip(rec, index_from)
        parsed == [i \in 1..Len(fields) |->
                     IF kind = "f32" THEN ParseFloat(trim(fields[i]))
                     ELSE IF kind = "u32" THEN ParseU32(trim(fields[i]))
                     ELSE ParseI32(trim(fields[i]))]
        kept == SelectSeq(parsed, LAMBDA x : x.ok)
    IN  Ok([i \in 1..Len(kept) |-> kept[i].v])

\* to_vec::<T>: every field trimmed and parsed; one failure fails the whole payload
to_vec(rec, index_from, kind) ==
    LET fields == skip(rec, index_from)
        parsed == [i \in 1..Len(fields) |->
                     IF kind = "f32" THEN ParseFloat(trim(fields[i]))
                     ELSE IF kind = "u32" THEN ParseU32(trim(fields[i]))
                     ELSE ParseI32(trim(fields[i]))]
    IN  IF \A i \in 1..Len(fields) : parsed[i].ok
        THEN Ok([i \in 1..Len(fields) |-> parsed[i].v])
        ELSE Err("Parse to Num Error")

skip_to_payload == 6

get_data_type(rec, type_str) ==
    IF \E row \in TagTable : row[1] = type_str
    THEN LET row == CHOOSE r \in TagTable : r[1] = type_str
         IN  IF row[3] = "string" THEN Ok(DataType(row[2], to_string(rec, skip_to_payload)))
             ELSE IF row[3] = "string_vec"
                  THEN Ok(DataType(row[2], to_string_vec(rec, skip_to_payload)))
             ELSE LET vec == to_vec(rec, skip_to_payload, row[3])
                  IN  IF vec.ok THEN Ok(DataType(row[2], vec.v)) ELSE vec
    ELSE Err("Unknown Type")

(***************************************************************************)
(* types.rs: DataType::as_str                                              *)
(***************************************************************************)
\* The arms of as_str: <<DataType variant, the text returned>>
AsStrArms ==
    { << "EA", <<"E","A">> >>, << "EL", <<"E","L">> >>, << "ER", <<"E","R">> >>,
      << "PI", <<"P","I">> >>, << "PR", <<"P","R">> >>, << "PG", <<"P","G">> >>,
      << "T0", <<"T","0">> >>, << "T1", <<"T","1">> >>, << "TH", <<"T","H">> >>,
      << "AX", <<"A","X">> >>, << "AY", <<"A","Y">> >>, << "AZ", <<"A","Z">> >>,
      << "GX", <<"G","X">> >>, << "GY", <<"G","Y">> >>, << "GZ", <<"G","Z">> >>,
      << "MX", <<"M","X">> >>, << "MY", <<"M","Y">> >>, << "MZ", <<"M","Z">> >>,
      << "BV", <<"B","V">> >>, << "BATLV", <<"B","%">> >>, << "AK", <<"A","K">> >>,
      << "RD", <<"R","D">> >>, << "TL", <<"T","L">> >>, << "TX", <<"T","X">> >>,
      << "TxTlLc", <<"T","X","_","T","L","_","L","C">> >>,
      << "TxLcLm", <<"T","X","_","L","C","_","L","M">> >>, << "EM", <<"E","M">> >>,
      << "HR", <<"H","R">> >>, << "BI", <<"B","I">> >>, << "SA", <<"S","A">> >>,
      << "SF", <<"S","F">> >>, << "SR", <<"S","R">> >>, << "UN", <<"U","N">> >>,
      << "LM", <<"L","M">> >>, << "RB", <<"R","B">> >> }

\* as_str returning the name of the variant
as_str_Names(dt) ==
    LET name == dt.variant
    IN  IF name = "BATLV" THEN <<"B","A","T","L","V">>
        ELSE IF name = "TxTlLc" THEN <<"T","x","T","l","L","c">>
        ELSE IF name = "TxLcLm" THEN <<"T","x","L","c","L","m">>
        ELSE (CHOOSE row \in AsStrArms : row[1] = name)[2]

as_str(dt) == (CHOOSE row \in AsStrArms : row[1] = dt.variant)[2]

(***************************************************************************)
(* types.rs: the packet decoder                                            *)
(***************************************************************************)
\* try_from_record reading the version from field 5 and the reliability from field 4
try_from_record_Swapped(r) ==
    IF Len(r) < 6 THEN Err("Missing Column")
    ELSE LET timestamp   == ParseFloat(r[1])
             packet_id   == ParseU32(r[2])
             data_points == ParseU8(r[3])
             version     == ParseU8(r[6])
             reliability == ParseU8(r[5])
             data_type   == get_data_type(r, r[4])
         IN  IF ~timestamp.ok THEN timestamp
             ELSE IF ~packet_id.ok THEN packet_id
             ELSE IF ~data_points.ok THEN data_points
             ELSE IF ~version.ok THEN version
             ELSE IF ~reliability.ok THEN reliability
             ELSE IF ~data_type.ok THEN data_type
             ELSE Ok([host_timestamp     |-> None,
                      emotibit_timestamp |-> timestamp.v,
                      packet_id          |-> packet_id.v,
                      data_points        |-> data_points.v,
                      version            |-> version.v,
                      reliability        |-> reliability.v,
                      data_type          |-> data_type.v])

\* impl TryFrom<&StringRecord> for DataPacket: the six header fields by position,
\* the first failing parse is the error (the struct fields are evaluated in order)
try_from_record(r) ==
    IF Len(r) < 6 THEN Err("Missing Column")
    ELSE LET timestamp   == ParseFloat(r[1])
             packet_id   == ParseU32(r[2])
             data_points == ParseU8(r[3])
             version     == ParseU8(r[5])
             reliability == ParseU8(r[6])
             data_type   == get_data_type(r, r[4])
         IN  IF ~timestamp.ok THEN timestamp
             ELSE IF ~packet_id.ok THEN packet_id
             ELSE IF ~data_points.ok THEN data_points
             ELSE IF ~version.ok THEN version
             ELSE IF ~reliability.ok THEN reliability
             ELSE IF ~data_type.ok THEN data_type
             ELSE Ok([host_timestamp     |-> None,
                      emotibit_timestamp |-> timestamp.v,
                      packet_id          |-> packet_id.v,
                      data_points        |-> data_points.v,
                      version            |-> version.v,
                      reliability        |-> reliability.v,
                      data_type          |-> data_type.v])

\* impl TryFrom<&str> for DataPacket: split at the commas, then decode the record
try_from_str(str) == try_from_record(split(str))

(***************************************************************************)
(* parser.rs: the TX refinement and get_packets                            *)
(***************************************************************************)
\* parser.rs reads the device time as x.timestamp and builds the refined packet
\* without a host timestamp: the field is emotibit_timestamp of types.rs, and the
\* refined packet's host_timestamp is absent.
split_tx_or_as_is(x) ==
    IF x.data_type.variant = "TX" /\ Len(x.data_type.payload) >= 4
    THEN LET data == x.data_type.payload
             tag1 == data[1]
             val1 == data[2]
             tag2 == data[3]
             val2 == data[4]
             p1 == ParseFloat(val1)
             p2 == ParseFloat(val2)
             refined(dt) == [host_timestamp     |-> None,
                             emotibit_timestamp |-> x.emotibit_timestamp,
                             packet_id          |-> x.packet_id,
                             data_points        |-> x.data_points,
                             version            |-> x.version,
                             reliability        |-> x.reliability,
                             data_type          |-> dt]
         IN  IF tag1 = <<"L","C">> /\ tag2 = <<"L","M">>
             THEN IF ~p1.ok THEN p1
                  ELSE IF ~p2.ok THEN p2
                  ELSE Ok(refined(DataType("TxLcLm", <<p1.v, p2.v>>)))
             ELSE IF tag1 = <<"T","L">> /\ tag2 = <<"L","C">>
             THEN IF ~p2.ok THEN p2
                  ELSE Ok(refined(DataType("TxTlLc", <<val1, p2.v>>)))
             ELSE Err("Invalid data")
    ELSE Ok(x)

\* One iteration of the loop of get_packets: decode the record, refine it, push
get_packets_record(r) ==
    LET packet == try_from_record(r)
    IN  IF packet.ok THEN split_tx_or_as_is(packet.v) ELSE packet

(***************************************************************************)
(* Outcome of a call: it returned a value, or it panicked                  *)
(***************************************************************************)
Returned(x) == [panicked |-> FALSE, ret |-> x]

Panicked(m) == [panicked |-> TRUE, msg |-> m]

(***************************************************************************)
(* parser.rs: find_syncs                                                   *)
(***************************************************************************)
TimeSync(rd, tl, ak) ==
    [rd          |-> rd.emotibit_timestamp,
     ts_received |-> tl.emotibit_timestamp,
     ts_sent     |-> tl.data_type.payload,
     ak          |-> ak.emotibit_timestamp,
     round_trip  |-> FSub(tl.emotibit_timestamp, rd.emotibit_timestamp)]

\* packets.iter().filter_map(..).collect(): the Ok packets tagged RD, TL or AK
RECURSIVE sync_packets(_)
sync_packets(ps) ==
    IF ps = <<>> THEN <<>>
    ELSE IF ps[1].ok /\ ps[1].v.data_type.variant \in {"RD", "TL", "AK"}
         THEN <<ps[1].v>> \o sync_packets(Tail(ps))
         ELSE sync_packets(Tail(ps))

\* sync_windows cutting the packets into blocks of three instead of sliding over them
RECURSIVE sync_windows_Blocks(_, _)
sync_windows_Blocks(syncs, i) ==
    IF i + 2 > Len(syncs) THEN <<>>
    ELSE (IF /\ syncs[i].data_type.variant = "RD"
             /\ syncs[i + 1].data_type.variant = "TL"
             /\ syncs[i + 2].data_type.variant = "AK"
          THEN <<TimeSync(syncs[i], syncs[i + 1], syncs[i + 2])>>
          ELSE <<>>) \o sync_windows_Blocks(syncs, i + 3)

\* sync_windows accepting any packet between the RD and the AK
RECURSIVE sync_windows_AnyReply(_, _)
sync_windows_AnyReply(syncs, i) ==
    IF i + 2 > Len(syncs) THEN <<>>
    ELSE (IF /\ syncs[i].data_type.variant = "RD"
             /\ syncs[i + 2].data_type.variant = "AK"
          THEN <<TimeSync(syncs[i], syncs[i + 1], syncs[i + 2])>>
          ELSE <<>>) \o sync_windows_AnyReply(syncs, i + 1)

\* izip!(&syncs, &syncs2[1..], &syncs3[2..]) and the push of every (RD, TL, AK)
RECURSIVE sync_windows(_, _)
sync_windows(syncs, i) ==
    IF i + 2 > Len(syncs) THEN <<>>
    ELSE (IF /\ syncs[i].data_type.variant = "RD"
             /\ syncs[i + 1].data_type.variant = "TL"
             /\ syncs[i + 2].data_type.variant = "AK"
          THEN <<TimeSync(syncs[i], syncs[i + 1], syncs[i + 2])>>
          ELSE <<>>) \o sync_windows(syncs, i + 1)

find_syncs(ps) ==
    LET syncs == sync_packets(ps)
    IN  IF Len(syncs) < 1 THEN Panicked("range start index 1 out of range")
        ELSE IF Len(syncs) < 2 THEN Panicked("range start index 2 out of range")
        ELSE Returned(Ok(sync_windows(syncs, 1)))

(***************************************************************************)
(* parser.rs: get_c_e                                                      *)
(***************************************************************************)
\* str::rfind('-'): the last position of the character, if any
rfind(ts, ch) ==
    IF \E i \in 1..Len(ts) : ts[i] = ch
    THEN Some(CHOOSE i \in 1..Len(ts) : ts[i] = ch /\ \A j \in (i + 1)..Len(ts) : ts[j] # ch)
    ELSE None

\* chrono's numeric item: one to width digits from position pos, as many as there are
ScanNumber(s, pos, width) ==
    LET n == CHOOSE k \in 0..width :
                 /\ \A j \in 0..(k - 1) : pos + j <= Len(s) /\ s[pos + j] \in Digits
                 /\ (k = width \/ pos + k > Len(s) \/ s[pos + k] \notin Digits)
    IN  IF n = 0 THEN [ok |-> FALSE, v |-> 0, next |-> pos]
        ELSE [ok |-> TRUE, v |-> DigitsValue(SubSeq(s, pos, pos + n - 1)), next |-> pos + n]

\* chrono's literal item
ScanLiteral(s, pos, ch) == pos <= Len(s) /\ s[pos] = ch

IsLeapYear(y) == (y % 4 = 0 /\ y % 100 # 0) \/ y % 400 = 0

DaysInMonth(y, m) ==
    IF m = 2 THEN (IF IsLeapYear(y) THEN 29 ELSE 28)
    ELSE IF m \in {4, 6, 9, 11} THEN 30 ELSE 31

\* NaiveDateTime::parse_from_str(head, "%Y-%m-%d_%H-%M-%S")
parse_from_str(s) ==
    LET Y  == ScanNumber(s, 1, 4)
        mo == ScanNumber(s, Y.next + 1, 2)
        d  == ScanNumber(s, mo.next + 1, 2)
        H  == ScanNumber(s, d.next + 1, 2)
        M  == ScanNumber(s, H.next + 1, 2)
        S  == ScanNumber(s, M.next + 1, 2)
    IN  IF /\ Y.ok  /\ ScanLiteral(s, Y.next, "-")
           /\ mo.ok /\ ScanLiteral(s, mo.next, "-")
           /\ d.ok  /\ ScanLiteral(s, d.next, "_")
           /\ H.ok  /\ ScanLiteral(s, H.next, "-")
           /\ M.ok  /\ ScanLiteral(s, M.next, "-")
           /\ S.ok  /\ S.next = Len(s) + 1
           /\ mo.v \in 1..12 /\ d.v \in 1..DaysInMonth(Y.v, mo.v)
           /\ H.v <= 23 /\ M.v <= 59 /\ S.v <= 60
        THEN Ok([year |-> Y.v, month |-> mo.v, day |-> d.v,
                 hour |-> H.v, minute |-> M.v,
                 second |-> IF S.v = 60 THEN 59 ELSE S.v])
        ELSE Err("ParseError")

\* days from 1970-01-01 to the date of the proleptic Gregorian calendar
days_from_civil(y, m, d) ==
    LET yy  == IF m <= 2 THEN y - 1 ELSE y
        era == yy \div 400
        yoe == yy - era * 400
        mp  == IF m > 2 THEN m - 3 ELSE m + 9
        doy == (153 * mp + 2) \div 5 + d - 1
        doe == yoe * 365 + yoe \div 4 - yoe \div 100 + doy
    IN  era * 146097 + doe - 719468

\* Local.from_local_datetime(&date_time).unwrap().timestamp(), for a host whose
\* local time is at a fixed offset (seconds east of UTC)
timestamp(dt, offset) ==
    days_from_civil(dt.year, dt.month, dt.day) * 86400
        + dt.hour * 3600 + dt.minute * 60 + dt.second - offset

RECURSIVE Pow10(_)
Pow10(k) == IF k = 0 THEN 1 ELSE 10 * Pow10(k - 1)

\* The f64 host time whole + num/den seconds, kept exact
HostTime(whole, num, den) == [nan |-> FALSE, whole |-> whole, num |-> num, den |-> den]

HostNaN == [nan |-> TRUE, whole |-> 0, num |-> 0, den |-> 1]

\* get_c_e scaling the fraction by the length of the tail, its '-' included
get_c_e_TailLength(sync, offset) ==
    LET e0  == sync.ts_received
        ts  == sync.ts_sent
        pos == rfind(ts, "-")
    IN  IF ~pos.some THEN Panicked("called Option::unwrap() on a None value")
        ELSE
        LET head == SubSeq(ts, 1, pos.v - 1)
            tail == SubSeq(ts, pos.v, Len(ts))
            date_time == parse_from_str(head)
            last_n_char == Len(tail)
            m == ParseFloat(Tail(tail))
        IN  IF ~date_time.ok THEN Panicked("Invalid format")
            ELSE IF ~m.ok THEN Panicked("called Result::unwrap() on an Err value")
            ELSE LET c == timestamp(date_time.v, offset)
                 IN  IF m.v.nan \/ sync.round_trip.nan THEN Returned(<<HostNaN, e0>>)
                     ELSE Returned(<<HostTime(c,
                                              2000 * m.v.n + Pow10(last_n_char) * sync.round_trip.n,
                                              2000 * Pow10(last_n_char)), e0>>)

\* get_c_e: (c0, e0) of a TimeSync
\*   c0 = c + m / 10^k + round_trip / 2 / 1000 = c + (2000 m + 10^k round_trip) / (2000 10^k)
get_c_e(sync, offset) ==
    LET e0  == sync.ts_received
        ts  == sync.ts_sent
        pos == rfind(ts, "-")
    IN  IF ~pos.some THEN Panicked("called Option::unwrap() on a None value")
        ELSE
        LET head == SubSeq(ts, 1, pos.v - 1)
            tail == SubSeq(ts, pos.v, Len(ts))
            date_time == parse_from_str(head)
            last_n_char == Len(tail) - 1
            m == ParseFloat(Tail(tail))
        IN  IF ~date_time.ok THEN Panicked("Invalid format")
            ELSE IF ~m.ok THEN Panicked("called Result::unwrap() on an Err value")
            ELSE LET c == timestamp(date_time.v, offset)
                 IN  IF m.v.nan \/ sync.round_trip.nan THEN Returned(<<HostNaN, e0>>)
                     ELSE Returned(<<HostTime(c,
                                              2000 * m.v.n + Pow10(last_n_char) * sync.round_trip.n,
                                              2000 * Pow10(last_n_char)), e0>>)

(***************************************************************************)
(* parser.rs: generate_sync_map                                            *)
(***************************************************************************)
\* Iterator::reduce
RECURSIVE reduce_min(_)
reduce_min(xs) ==
    IF xs = <<>> THEN None
    ELSE IF Len(xs) = 1 THEN Some(xs[1])
    ELSE Some(FMin(reduce_min(SubSeq(xs, 1, Len(xs) - 1)).v, xs[Len(xs)]))

RECURSIVE reduce_max(_)
reduce_max(xs) ==
    IF xs = <<>> THEN None
    ELSE IF Len(xs) = 1 THEN Some(xs[1])
    ELSE Some(FMax(reduce_max(SubSeq(xs, 1, Len(xs) - 1)).v, xs[Len(xs)]))

\* packets.iter().filter_map(|result| result.as_ref().ok()).map(|p| p.timestamp)
RECURSIVE filtered(_)
filtered(ps) ==
    IF ps = <<>> THEN <<>>
    ELSE IF ps[1].ok THEN <<ps[1].v.emotibit_timestamp>> \o filtered(Tail(ps))
    ELSE filtered(Tail(ps))

\* num::integer::div_ceil
div_ceil(a, b) == (a + b - 1) \div b

\* slice::chunks(size), size > 0: the chunks in order, the last one possibly shorter
RECURSIVE chunks(_, _)
chunks(xs, size) ==
    IF xs = <<>> THEN <<>>
    ELSE IF Len(xs) <= size THEN <<xs>>
    ELSE <<SubSeq(xs, 1, size)>> \o chunks(SubSeq(xs, size + 1, Len(xs)), size)

\* shortest_round_trip returning the last element of least round trip
shortest_round_trip_Last(vec) ==
    LET shortest == reduce_min([i \in 1..Len(vec) |-> vec[i].round_trip]).v
    IN  IF \E i \in 1..Len(vec) : FEq(vec[i].round_trip, shortest)
        THEN Some(vec[CHOOSE i \in 1..Len(vec) :
                         /\ FEq(vec[i].round_trip, shortest)
                         /\ \A j \in (i + 1)..Len(vec) : ~FEq(vec[j].round_trip, shortest)])
        ELSE None

\* the first element whose round trip equals (==) the minimum; vec is not empty
shortest_round_trip(vec) ==
    LET shortest == reduce_min([i \in 1..Len(vec) |-> vec[i].round_trip]).v
    IN  IF \E i \in 1..Len(vec) : FEq(vec[i].round_trip, shortest)
        THEN Some(vec[CHOOSE i \in 1..Len(vec) :
                         /\ FEq(vec[i].round_trip, shortest)
                         /\ \A j \in 1..(i - 1) : ~FEq(vec[j].round_trip, shortest)])
        ELSE None

Pair(i, j) == Some([first |-> i, second |-> j])

\* best_timestamps without the arm that pairs quartiles 0 and 2
best_timestamps_NoZeroTwo(q0, q1, q2, q3) ==
    IF q0.some /\ q3.some THEN Pair(0, 3)
    ELSE IF q1.some /\ q3.some THEN Pair(1, 3)
    ELSE IF q1.some /\ q2.some THEN Pair(1, 2)
    ELSE IF q0.some /\ q1.some THEN Pair(0, 1)
    ELSE IF q2.some /\ q3.some THEN Pair(2, 3)
    ELSE None

\* The match of generate_sync_map on the four quartile candidates, arm by arm:
\* the quartiles (0..3) whose candidates x and y the matching arm binds
best_timestamps(q0, q1, q2, q3) ==
    IF q0.some /\ q3.some THEN Pair(0, 3)
    ELSE IF q0.some /\ q2.some THEN Pair(0, 2)
    ELSE IF q1.some /\ q3.some THEN Pair(1, 3)
    ELSE IF q1.some /\ q2.some THEN Pair(1, 2)
    ELSE IF q0.some /\ q1.some THEN Pair(0, 1)
    ELSE IF q2.some /\ q3.some THEN Pair(2, 3)
    ELSE None

parse_version == "lonesomtraveler.0.0.1"

\* A call of generate_sync_map: how it ended, and its locals when it ended
\* (syncs, the four quartile candidates, the quartiles of the matching arm)
Call(end, syncs, quartile_best, pair) ==
    [end |-> end, syncs |-> syncs, quartile_best |-> quartile_best, pair |-> pair]

generate_sync_map(ps, offset) ==
    LET times == filtered(ps)
        emotibit_start_time == reduce_min(times)
        emotibit_end_time == reduce_max(times)
        found == find_syncs(ps)
    IN  IF ~emotibit_start_time.some
        THEN Call(Panicked("called Option::unwrap() on a None value"), <<>>, <<>>, None)
        ELSE IF found.panicked THEN Call(found, <<>>, <<>>, None)
        ELSE
        LET syncs == found.ret.v
            size == div_ceil(Len(syncs), 4)
        IN  IF size = 0 THEN Call(Panicked("chunk size must be non-zero"), syncs, <<>>, None)
            ELSE
            LET quartiles == chunks(syncs, size)
            IN  IF Len(quartiles) < 4
                THEN Call(Panicked("called Option::unwrap() on a None value"), syncs, <<>>, None)
                ELSE
                LET best == [i \in 1..4 |-> shortest_round_trip(quartiles[i])]
                    pair == best_timestamps(best[1], best[2], best[3], best[4])
                IN  IF ~pair.some
                    THEN Call(Returned(Err("Cannot generate a time sync map")), syncs, best, pair)
                    ELSE
                    LET a0 == get_c_e(best[pair.v.first + 1].v, offset)
                        a1 == get_c_e(best[pair.v.second + 1].v, offset)
                    IN  IF a0.panicked THEN Call(a0, syncs, best, pair)
                        ELSE IF a1.panicked THEN Call(a1, syncs, best, pair)
                        ELSE Call(Returned(Ok(
                                 [te0 |-> a0.ret[2],
                                  te1 |-> a1.ret[2],
                                  tl0 |-> a0.ret[1],
                                  tl1 |-> a1.ret[1],
                                  syncs_received |-> Len(syncs),
                                  emotibit_start_time |-> emotibit_start_time.v,
                                  emotibit_end_time |-> emotibit_end_time.v,
                                  parse_version |-> parse_version])), syncs, best, pair)

(***************************************************************************)
(* types.rs: DataPacket::inject_host_timestamp                             *)
(***************************************************************************)
RECURSIVE Gcd(_, _)
Gcd(a, b) == IF b = 0 THEN a ELSE Gcd(b, a % b)

\* the fraction num/den in lowest terms
Reduced(num, den) == <<num \div Gcd(num, den), den \div Gcd(num, den)>>

Abs(n) == IF n < 0 THEN -n ELSE n

\* The f64 values of the projection, kept exact: a fraction num/den in lowest
\* terms (den > 0), an infinity (inf = 1 or -1) or NaN
Frac(num, den) ==
    LET g == Gcd(Abs(num), den)
    IN  [nan |-> FALSE, inf |-> 0, num |-> num \div g, den |-> den \div g]

FracNaN == [nan |-> TRUE, inf |-> 0, num |-> 0, den |-> 1]

FracInf(sign) == [nan |-> FALSE, inf |-> sign, num |-> 0, den |-> 1]

Sign(n) == IF n < 0 THEN -1 ELSE IF n > 0 THEN 1 ELSE 0

\* a device time (Num or NaNf) and a host anchor (HostTime or HostNaN) as such values
FracOfNum(x) == IF x.nan THEN FracNaN ELSE Frac(x.n, 1)

FracOfHost(a) == IF a.nan THEN FracNaN ELSE Frac(a.whole * a.den + a.num, a.den)

\* f64 +, -, * and / (rounding apart): x / 0 is an infinity, 0 / 0 is NaN
FracAdd(a, b) ==
    IF a.nan \/ b.nan THEN FracNaN
    ELSE IF a.inf # 0 /\ b.inf # 0 THEN (IF a.inf = b.inf THEN a ELSE FracNaN)
    ELSE IF a.inf # 0 THEN a
    ELSE IF b.inf # 0 THEN b
    ELSE Frac(a.num * b.den + b.num * a.den, a.den * b.den)

FracNeg(a) == IF a.nan THEN a ELSE IF a.inf # 0 THEN FracInf(-a.inf) ELSE Frac(-a.num, a.den)

FracSub(a, b) == FracAdd(a, FracNeg(b))

FracMul(a, b) ==
    IF a.nan \/ b.nan THEN FracNaN
    ELSE IF a.inf # 0 \/ b.inf # 0
         THEN LET s == (IF a.inf # 0 THEN a.inf ELSE Sign(a.num))
                          * (IF b.inf # 0 THEN b.inf ELSE Sign(b.num))
              IN  IF s = 0 THEN FracNaN ELSE FracInf(s)
    ELSE Frac(a.num * b.num, a.den * b.den)

FracDiv(a, b) ==
    IF a.nan \/ b.nan THEN FracNaN
    ELSE IF a.inf # 0 THEN (IF b.inf # 0 THEN FracNaN
                            ELSE FracInf(a.inf * (IF b.num < 0 THEN -1 ELSE 1)))
    ELSE IF b.inf # 0 THEN Frac(0, 1)
    ELSE IF b.num = 0 THEN (IF a.num = 0 THEN FracNaN ELSE FracInf(Sign(a.num)))
    ELSE Frac(a.num * b.den * Sign(b.num), a.den * Abs(b.num))

\* host = tl0 + (tl1 - tl0) * (emotibit_timestamp - te0) / (te1 - te0), the
\* "timestamp" of the source, evaluated in the order the f64 expression is
inject_host_timestamp(self, map) ==
    LET tl0 == FracOfHost(map.tl0)
        tl1 == FracOfHost(map.tl1)
        te0 == FracOfNum(map.te0)
        te1 == FracOfNum(map.te1)
        host == FracAdd(tl0, FracDiv(FracMul(FracSub(tl1, tl0),
                                            FracSub(FracOfNum(self.emotibit_timestamp), te0)),
                                    FracSub(te1, te0)))
    IN  [host_timestamp     |-> Some(host),
         emotibit_timestamp |-> self.emotibit_timestamp,
         packet_id          |-> self.packet_id,
         data_points        |-> self.data_points,
         version            |-> self.version,
         reliability        |-> self.reliability,
         data_type          |-> self.data_type]

\* to_csv: datapackets.into_iter().filter_map(|result| result.ok())
\*                    .map(|p| p.inject_host_timestamp(&map)).collect()
ok_packets(ps) ==
    LET sel == SelectSeq(ps, LAMBDA p : p.ok)
    IN  [i \in 1..Len(sel) |-> sel[i].v]

inject_all(ps, map) ==
    LET oks == ok_packets(ps)
    IN  [i \in 1..Len(oks) |-> inject_host_timestamp(oks[i], map)]

(***************************************************************************)
(* The records handed to the decoder                                       *)
(***************************************************************************)
DigitChar == <<"0", "1", "2", "3", "4", "5", "6", "7", "8", "9">>

\* the decimal text of a natural number, as the device writes its clock
RECURSIVE to_text(_)
to_text(n) == IF n < 10 THEN <<DigitChar[n + 1]>> ELSE to_text(n \div 10) \o <<DigitChar[(n % 10) + 1]>>

\* a record of the log: the six header fields, then the payload fields
Record(ts, tag, payload) ==
    <<ts, <<"7">>, to_text(Len(payload)), tag, <<"1">>, <<"1","0","0">>>> \o payload

\* host time texts of TL records: as the device logs them (the fraction after
\* the last '-'), and malformed ones
SentA == <<"2","0","2","3","-","0","5","-","0","1","_","1","0","-","0","0","-","0","0","-","1","2","3","4">>

SentB == <<"1","9","7","0","-","0","1","-","0","2","_","0","0","-","0","0","-","0","5","-","0","7">>

SentUnderscore == <<"2","0","2","3","-","0","5","-","0","1","_","1","0","-","0","0","-","0","0","_","1","2","3","4">>

SentNoDash == <<"2","0","2","3","0","5","0","1">>

SentNoFraction == <<"2","0","2","3","-","0","5","-","0","1","_","1","0","-","0","0","-","0","0","-">>

RecordRD(ts) == Record(ts, <<"R","D">>, << <<"T","L">> >>)

RecordTL(ts, sent) == Record(ts, <<"T","L">>, <<sent>>)

RecordAK(ts) == Record(ts, <<"A","K">>, << <<"7">>, <<"T","L">> >>)

RecordPI(ts) == Record(ts, <<"P","I">>, << <<"1","5","6">>, <<" ","9"," ">> >>)

RecordBad(ts) == Record(ts, <<"P","I">>, << <<"1","5","6">>, <<"x">> >>)

(***************************************************************************)
(* The state machine                                                       *)
(***************************************************************************)
MaxPackets == 6

MaxHandshakes == 7

MaxAnchorHandshakes == 4

NoCall == [op |-> "none"]

\* get_packets: one iteration of its loop over the records of the file
GetPacketsStep(r) ==
    /\ result.op = "none"
    /\ record' = r
    /\ packets' = Append(packets, get_packets_record(r))
    /\ UNCHANGED <<result, utc_offset>>

\* get_packets: three iterations, over the records of one clock exchange
GetPacketsHandshake(rd, tl, ak) ==
    /\ result.op = "none"
    /\ record' = ak
    /\ packets' = packets \o <<get_packets_record(rd), get_packets_record(tl),
                               get_packets_record(ak)>>
    /\ UNCHANGED <<result, utc_offset>>

\* DataPacket::try_from(&str), as the UDP listener calls it on a received line
TryFromStr ==
    /\ result.op = "none"
    /\ result' = [op |-> "try_from", out |-> try_from_str(join(record))]
    /\ UNCHANGED <<record, packets, utc_offset>>

FindSyncs ==
    /\ result.op = "none"
    /\ result' = [op |-> "find_syncs", out |-> find_syncs(packets)]
    /\ UNCHANGED <<record, packets, utc_offset>>

GenerateSyncMap ==
    /\ result.op = "none"
    /\ result' = [op |-> "generate_sync_map", out |-> generate_sync_map(packets, utc_offset)]
    /\ UNCHANGED <<record, packets, utc_offset>>

(***************************************************************************)
(* Spec: a log of clock-exchange, data and malformed records, read record  *)
(* by record; the device clock advances by 10 from record to record        *)
(***************************************************************************)
StreamRecords(ts) ==
    {RecordRD(ts), RecordTL(ts, SentA), RecordAK(ts), RecordPI(ts), RecordBad(ts)}

ReadRecord ==
    /\ Len(packets) < MaxPackets
    /\ \E r \in StreamRecords(to_text(10 * (Len(packets) + 1))) : GetPacketsStep(r)

Init ==
    /\ record = <<>>
    /\ packets = <<>>
    /\ result = NoCall
    /\ utc_offset = 0

Next == ReadRecord \/ FindSyncs \/ GenerateSyncMap

Spec == Init /\ [][Next]_vars

(***************************************************************************)
(* SpecDecode: one record, decoded by get_packets (with the TX refinement) *)
(* and by DataPacket::try_from(&str)                                       *)
(***************************************************************************)
DecodeTags == {row[1] : row \in TagTable} \cup { <<"Z","Z">>, <<"t","x">> }

DecodeHeaders(tag) ==
    { << <<"1","1","2","6","3","4","9">>, <<"4","9","1","0","6">>, <<"1","0">>, tag,
         <<"1">>, <<"1","0","0">> >>,
      << <<"1","2","x">>, <<"4","9","1","0","6">>, <<"1","0">>, tag, <<"1">>, <<"1","0","0">> >>,
      << <<"1","2">>, <<"7">>, <<"2","5","6">>, tag, <<"1">>, <<"1","0","0">> >> }

DecodePayloads ==
    { <<>>,
      << <<"5">> >>,
      << <<"1","5","6">>, <<" ","7"," ">> >>,
      << <<"-","3">>, <<"4">> >>,
      << <<"5">>, <<"x">>, <<"6">> >>,
      << <<"L","C">>, <<"1","2">>, <<"L","M">>, <<"3","4">> >>,
      << <<"L","C">>, <<"1","2">>, <<"L","M">>, <<"3","4">>, <<"9">> >>,
      << <<"L","C">>, <<"x">>, <<"L","M">>, <<"3","4">> >>,
      << <<"T","L">>, SentA, <<"L","C">>, <<"5","6">> >>,
      << <<"T","L">>, SentA, <<"L","C">>, <<"y">> >>,
      << <<"L","M">>, <<"1","2">>, <<"L","C">>, <<"3","4">> >>,
      << <<"L","C">>, <<"1","2">>, <<"L","M">> >> }

DecodeRecords ==
    UNION { { h \o p : p \in DecodePayloads } \cup { SubSeq(h, 1, 5), SubSeq(h, 1, 3) } :
            h \in UNION { DecodeHeaders(tag) : tag \in DecodeTags } }

InitDecode ==
    /\ record \in DecodeRecords
    /\ packets = <<>>
    /\ result = NoCall
    /\ utc_offset = 0

ReadOneRecord == Len(packets) = 0 /\ GetPacketsStep(record)

NextDecode == ReadOneRecord \/ TryFromStr

SpecDecode == InitDecode /\ [][NextDecode]_vars

(***************************************************************************)
(* SpecSync: a log of complete clock exchanges (RD, TL, AK), the n-th      *)
(* starting at device time 100 n, with round trips of 1 or 2 ms or with a  *)
(* request whose device time reads NaN                                     *)
(***************************************************************************)
SyncRoundTrips == {1, 2}

ExchangeRD(n) == RecordRD(to_text(100 * n))

ExchangeTL(n, rt, sent) == RecordTL(to_text(100 * n + rt), sent)

ExchangeAK(n, rt) == RecordAK(to_text(100 * n + rt + 1))

\* the results get_packets pushes for the exchanges with the given round trips
RECURSIVE ExchangeLog(_)
ExchangeLog(rts) ==
    IF rts = <<>> THEN <<>>
    ELSE LET n == Len(rts)
             rt == rts[n]
         IN  ExchangeLog(SubSeq(rts, 1, n - 1)) \o
             <<get_packets_record(ExchangeRD(n)), get_packets_record(ExchangeTL(n, rt, SentA)),
               get_packets_record(ExchangeAK(n, rt))>>

\* the log of eight exchanges with round trips 1,5,2,6,3,7,4,8
Example8 == ExchangeLog(<<1, 5, 2, 6, 3, 7, 4, 8>>)

Exchanges == Len(packets) \div 3

ReadExchange ==
    /\ Exchanges < MaxHandshakes
    /\ \E rt \in SyncRoundTrips :
          GetPacketsHandshake(ExchangeRD(Exchanges + 1), ExchangeTL(Exchanges + 1, rt, SentA),
                              ExchangeAK(Exchanges + 1, rt))

ReadExchangeNaN ==
    /\ Exchanges < MaxHandshakes
    /\ GetPacketsHandshake(RecordRD(<<"N","a","N">>), ExchangeTL(Exchanges + 1, 1, SentA),
                           ExchangeAK(Exchanges + 1, 1))

InitSync ==
    /\ record = <<>>
    /\ packets \in {<<>>, Example8}
    /\ result = NoCall
    /\ utc_offset = 0

NextSync == ReadExchange \/ ReadExchangeNaN \/ GenerateSyncMap

SpecSync == InitSync /\ [][NextSync]_vars

(***************************************************************************)
(* SpecAnchor: a log of complete clock exchanges with a round trip of 20   *)
(* ms and well-formed or malformed host time texts, on a host at UTC or    *)
(* at UTC+9; an exchange may also repeat the reply time of the first one   *)
(* (round trip 40 ms)                                                      *)
(***************************************************************************)
TzOffsets == {0, 32400}

SentTexts == {SentA, SentB, SentUnderscore, SentNoDash, SentNoFraction}

ReadExchangeSent ==
    /\ Exchanges < MaxAnchorHandshakes
    /\ \E sent \in SentTexts :
          GetPacketsHandshake(ExchangeRD(Exchanges + 1), ExchangeTL(Exchanges + 1, 20, sent),
                              ExchangeAK(Exchanges + 1, 20))

ReadExchangeRepeated ==
    /\ Exchanges < MaxAnchorHandshakes
    /\ GetPacketsHandshake(RecordRD(to_text(80)), ExchangeTL(1, 20, SentA), ExchangeAK(1, 20))

InitAnchor ==
    /\ record = <<>>
    /\ packets = <<>>
    /\ result = NoCall
    /\ utc_offset \in TzOffsets

NextAnchor == ReadExchangeSent \/ ReadExchangeRepeated \/ GenerateSyncMap

SpecAnchor == InitAnchor /\ [][NextAnchor]_vars

(***************************************************************************)
(* SpecInject: a log of data records followed by complete clock exchanges  *)
(* whose host time texts are early in 1970 (round trip 20 ms, or 40 ms for *)
(* an exchange that repeats the reply time of the first one), on a host at *)
(* UTC; the map is built and every decoded packet is projected with it, as *)
(* the CSV converter does                                                  *)
(***************************************************************************)
MaxDataRecords == 1

MaxInjectHandshakes == 4

\* 100.99 s and 160.49 s after the epoch
SentEarly == <<"1","9","7","0","-","0","1","-","0","1","_","0","0","-","0","1","-","4","0","-","9","9">>

SentLate == <<"1","9","7","0","-","0","1","-","0","1","_","0","0","-","0","2","-","4","0","-","4","9">>

\* 100.98 s after the epoch
SentAgain == <<"1","9","7","0","-","0","1","-","0","1","_","0","0","-","0","1","-","4","0","-","9","8">>

InjectTexts == {SentEarly, SentLate}

\* device times of the data records: before, between and after the exchanges
DataTimes == {20, 270, 600}

DataRecords == Len(SelectSeq(packets, LAMBDA p : p.ok /\ p.v.data_type.variant = "PI"))

InjectExchanges == (Len(packets) - DataRecords) \div 3

ReadDataRecord ==
    /\ DataRecords = Len(packets)
    /\ Len(packets) < MaxDataRecords
    /\ \E t \in DataTimes : GetPacketsStep(RecordPI(to_text(t)))

ReadExchangeInject ==
    /\ InjectExchanges < MaxInjectHandshakes
    /\ \E sent \in InjectTexts :
          GetPacketsHandshake(ExchangeRD(InjectExchanges + 1),
                              ExchangeTL(InjectExchanges + 1, 20, sent),
                              ExchangeAK(InjectExchanges + 1, 20))

ReadExchangeAgain ==
    /\ InjectExchanges < MaxInjectHandshakes
    /\ GetPacketsHandshake(RecordRD(to_text(80)), ExchangeTL(1, 20, SentAgain), ExchangeAK(1, 20))

\* to_csv: match syncmap { Ok(map) => every Ok packet projected, Err(_) => as decoded }
InjectHostTimestamp ==
    /\ result.op = "generate_sync_map"
    /\ ~result.out.end.panicked
    /\ result' = [op  |-> "inject_host_timestamp",
                  map |-> result.out.end.ret,
                  out |-> IF result.out.end.ret.ok
                          THEN inject_all(packets, result.out.end.ret.v)
                          ELSE ok_packets(packets)]
    /\ UNCHANGED <<record, packets, utc_offset>>

InitInject ==
    /\ record = <<>>
    /\ packets = <<>>
    /\ result = NoCall
    /\ utc_offset = 0

NextInject ==
    ReadDataRecord \/ ReadExchangeInject \/ ReadExchangeAgain \/ GenerateSyncMap
        \/ InjectHostTimestamp

SpecInject == InitInject /\ [][NextInject]_vars

(***************************************************************************)
(* Properties                                                              *)
(***************************************************************************)
IsHandshake(p) == p.ok /\ p.v.data_type.variant \in {"RD", "TL", "AK"}

\* F: the decoded packets tagged RD, TL or AK, in the order of the log
HandshakeSeq ==
    LET sel == SelectSeq(packets, IsHandshake)
    IN  [i \in 1..Len(sel) |-> sel[i].v]

\* the start indices of the windows of F tagged (RD, TL, AK)
SyncWindowStarts ==
    {i \in 1..(Len(HandshakeSeq) - 2) :
        /\ HandshakeSeq[i].data_type.variant = "RD"
        /\ HandshakeSeq[i + 1].data_type.variant = "TL"
        /\ HandshakeSeq[i + 2].data_type.variant = "AK"}

SameHeader(p, q) ==
    /\ p.emotibit_timestamp = q.emotibit_timestamp
    /\ p.packet_id = q.packet_id
    /\ p.data_points = q.data_points
    /\ p.version = q.version
    /\ p.reliability = q.reliability

NumericText(s) == s # <<>> /\ AllDigits(s)

\* what C1 says of the decode d of the record r (the value entries being numbers)
TxClaim(r, d) ==
    LET base == try_from_record(r)
    IN  (base.ok /\ base.v.data_type.variant = "TX") =>
            LET data == base.v.data_type.payload
            IN  IF Len(data) < 4 THEN d = base
                ELSE IF data[1] = <<"L","C">> /\ data[3] = <<"L","M">>
                     THEN (NumericText(data[2]) /\ NumericText(data[4])) =>
                          /\ d.ok
                          /\ d.v.data_type.variant = "TxLcLm"
                          /\ d.v.data_type.payload =
                                <<Num(DigitsValue(data[2])), Num(DigitsValue(data[4]))>>
                          /\ SameHeader(d.v, base.v)
                ELSE IF data[1] = <<"T","L">> /\ data[3] = <<"L","C">>
                     THEN NumericText(data[4]) =>
                          /\ d.ok
                          /\ d.v.data_type.variant = "TxTlLc"
                          /\ d.v.data_type.payload = <<data[2], Num(DigitsValue(data[4]))>>
                          /\ SameHeader(d.v, base.v)
                ELSE ~d.ok /\ d.err = "Invalid data"

\* C1: every decode of a TX record with at least 4 payload entries yields the
\* two-number variant for the sub-tags (LC, LM), the (string, number) variant for
\* (TL, LC) and the "Invalid data" failure for any other pair, a TX record with
\* fewer entries stays the plain TX packet, and a refined packet keeps the header;
\* for the decode of get_packets and for DataPacket::try_from(&str) alike.
C1_TxRefinement ==
    /\ Len(packets) = 1 => TxClaim(record, packets[1])
    /\ result.op = "try_from" => TxClaim(record, result.out)

\* C2: find_syncs returns whenever F has at least 3 packets, and what it returns
\* is, in increasing order of i, one triple per window (F[i], F[i+1], F[i+2])
\* tagged (RD, TL, AK) and nothing else, with rd, ts_received and ak the device
\* times of the three packets, ts_sent the TL payload and round_trip the TL time
\* minus the RD time.
C2_WindowRule ==
    result.op = "find_syncs" =>
        LET F == HandshakeSeq
            W == SyncWindowStarts
            out == result.out
        IN  /\ Len(F) >= 3 => ~out.panicked
            /\ ~out.panicked =>
                  /\ out.ret.ok
                  /\ Len(out.ret.v) = Cardinality(W)
                  /\ \A i \in W :
                        LET t == out.ret.v[Cardinality({j \in W : j <= i})]
                        IN  /\ t.rd = F[i].emotibit_timestamp
                            /\ t.ts_received = F[i + 1].emotibit_timestamp
                            /\ t.ak = F[i + 2].emotibit_timestamp
                            /\ t.ts_sent = F[i + 1].data_type.payload
                            /\ t.round_trip =
                                  Num(F[i + 1].emotibit_timestamp.n - F[i].emotibit_timestamp.n)

\* find_syncs returned a triple from a log with a dropped packet and a skipped window
C2_Witness ==
    /\ result.op = "find_syncs"
    /\ ~result.out.panicked
    /\ Len(result.out.ret.v) >= 1
    /\ Len(HandshakeSeq) >= 4
    /\ Len(packets) > Len(HandshakeSeq)

\* C3: on fewer than 3 decoded handshake packets find_syncs returns the
\* "not enough sync data" error: no empty list, no abort.
C3_NotEnoughSyncData ==
    (result.op = "find_syncs" /\ Len(HandshakeSeq) < 3) =>
        /\ ~result.out.panicked
        /\ ~result.out.ret.ok
        /\ result.out.ret.err = "Not enough sync data"

DecodedTimes == {packets[i].v.emotibit_timestamp.n : i \in {j \in 1..Len(packets) : packets[j].ok}}

\* C10: a map returned by generate_sync_map spans the least and the greatest device
\* time of the decoded packets, and on a log without a decoded packet
\* generate_sync_map returns an error value instead of aborting.
C10_DeviceTimeSpan ==
    result.op = "generate_sync_map" =>
        LET end == result.out.end
        IN  /\ DecodedTimes = {} => (~end.panicked /\ ~end.ret.ok)
            /\ (~end.panicked /\ end.ret.ok) =>
                  /\ end.ret.v.emotibit_start_time.n \in DecodedTimes
                  /\ end.ret.v.emotibit_end_time.n \in DecodedTimes
                  /\ \A t \in DecodedTimes :
                        /\ end.ret.v.emotibit_start_time.n <= t
                        /\ t <= end.ret.v.emotibit_end_time.n

(***************************************************************************)
(* Properties of the sync-map builder                                      *)
(***************************************************************************)
\* generate_sync_map was called and reached the choice of the anchor pair
ReachedSelection == result.op = "generate_sync_map" /\ Len(result.out.quartile_best) = 4

ReturnedMap ==
    /\ result.op = "generate_sync_map"
    /\ ~result.out.end.panicked
    /\ result.out.end.ret.ok

\* the first pair of the list whose two candidates are present
PriorityChoice(list, best) ==
    LET present == {k \in 1..Len(list) : best[list[k][1] + 1].some /\ best[list[k][2] + 1].some}
    IN  IF present = {} THEN None
        ELSE LET k == CHOOSE x \in present : \A y \in present : x <= y
             IN  Some([first |-> list[k][1], second |-> list[k][2]])

ClaimedPriority == << <<0, 3>>, <<1, 3>>, <<1, 2>>, <<0, 1>>, <<2, 3>> >>

CodePriority == << <<0, 3>>, <<0, 2>>, <<1, 3>>, <<1, 2>>, <<0, 1>>, <<2, 3>> >>

\* C4 as claimed: the chosen pair is the first pair of (0&3, 1&3, 1&2, 0&1, 2&3)
\* whose two candidates are present; quartiles 0 and 2 are never paired.
C4_ClaimedPriority ==
    ReachedSelection =>
        result.out.pair = PriorityChoice(ClaimedPriority, result.out.quartile_best)

\* C4 amended: the chosen pair is the first pair of (0&3, 0&2, 1&3, 1&2, 0&1, 2&3)
\* whose two candidates are present, and there is no pair when none of them is.
C4_CodePriority ==
    ReachedSelection =>
        result.out.pair = PriorityChoice(CodePriority, result.out.quartile_best)

\* the builder paired quartiles 0 and 2, quartile 3 having no candidate
C4_Witness ==
    /\ ReachedSelection
    /\ ~result.out.quartile_best[4].some
    /\ result.out.quartile_best[2].some
    /\ result.out.pair = Some([first |-> 0, second |-> 2])

C6_MissingQuartiles ==
    (result.op = "generate_sync_map" /\ Len(HandshakeSeq) >= 2) =>
        /\ ~result.out.end.panicked
        /\ (result.out.end.ret.ok \/ result.out.end.ret.err = "Cannot generate a time sync map")

\* C7: every map generate_sync_map returns has te0 # te1.
C7_NonDegenerate ==
    ReturnedMap => result.out.end.ret.v.te0 # result.out.end.ret.v.te1

\* the two triples the builder chose, in the order of the pair
Chosen ==
    <<result.out.quartile_best[result.out.pair.v.first + 1].v,
      result.out.quartile_best[result.out.pair.v.second + 1].v>>

\* whole epoch seconds (UTC) of the date-time part of a host time text
EpochOf(sent) == IF sent = SentB THEN 86405 ELSE 1682935200

\* f/10^k + round_trip/2000 in lowest terms:
\*   .1234 + .010 = 667/5000, .1234 + .020 = 717/5000, .07 + .010 = 2/25
FractionOf(sent, rt) ==
    IF sent = SentB THEN <<2, 25>> ELSE IF rt = 20 THEN <<667, 5000>> ELSE <<717, 5000>>

\* the host anchor a is epoch(sent, local) + f/10^k + round_trip/2000 for the triple t
AnchorOf(a, t) ==
    /\ ~a.nan
    /\ a.whole = EpochOf(t.ts_sent) - utc_offset
    /\ Reduced(a.num, a.den) = FractionOf(t.ts_sent, t.round_trip.n)

C9_UnparseableText ==
    (result.op = "generate_sync_map" /\ result.out.pair.some
       /\ \E k \in 1..2 : Chosen[k].ts_sent \in {SentUnderscore, SentNoDash, SentNoFraction}) =>
        /\ ~result.out.end.panicked
        /\ ~result.out.end.ret.ok

(***************************************************************************)
(* Properties of the projection onto the host clock                        *)
(***************************************************************************)
\* every decoded packet of the log was projected with a map the builder returned
Injected == result.op = "inject_host_timestamp" /\ result.map.ok

\* a map of four numbers whose device anchors differ
ProperMap(m) == ~m.te0.nan /\ ~m.te1.nan /\ ~m.tl0.nan /\ ~m.tl1.nan /\ m.te0.n # m.te1.n

\* a host anchor as the fraction <<p, q>> in lowest terms
HostPair(a) == Reduced(a.whole * a.den + a.num, a.den)

\* h is a number with (h - tl0) (te1 - te0) = (tl1 - tl0) (e - te0), the
\* fractions cleared
OnLine(h, e, m) ==
    LET a0 == HostPair(m.tl0)
        a1 == HostPair(m.tl1)
    IN  /\ ~h.nan
        /\ h.inf = 0
        /\ (h.num * a0[2] - a0[1] * h.den) * a1[2] * (m.te1.n - m.te0.n)
             = (a1[1] * a0[2] - a0[1] * a1[2]) * (e - m.te0.n) * h.den

\* h is the host anchor a
AtAnchor(h, a) == ~h.nan /\ h.inf = 0 /\ <<h.num, h.den>> = HostPair(a)

\* h is halfway between the two host anchors
AtMidpoint(h, m) ==
    LET a0 == HostPair(m.tl0)
        a1 == HostPair(m.tl1)
    IN  /\ ~h.nan
        /\ h.inf = 0
        /\ 2 * h.num * a0[2] * a1[2] = (a0[1] * a1[2] + a1[1] * a0[2]) * h.den

\* every packet of result.out is its input with the host timestamp of the line
\* through (te0, tl0) and (te1, tl1): host_timestamp is
\* tl0 + (tl1 - tl0) (t - te0) / (te1 - te0) for the packet's device time t, the
\* other fields are the input's, a packet at te0 is mapped to tl0, one at te1 to
\* tl1 and one at the midpoint of te0 and te1 to the midpoint of tl0 and tl1;
\* device times outside [te0, te1] are mapped like the others (f64 rounding apart)
ProjectedBy(m) ==
    LET inputs == SelectSeq(packets, LAMBDA p : p.ok)
    IN  /\ Len(result.out) = Len(inputs)
        /\ \A i \in 1..Len(inputs) :
              LET p == inputs[i].v
                  q == result.out[i]
                  t == p.emotibit_timestamp
              IN  /\ q.emotibit_timestamp = t
                  /\ q.packet_id = p.packet_id
                  /\ q.data_points = p.data_points
                  /\ q.version = p.version
                  /\ q.reliability = p.reliability
                  /\ q.data_type = p.data_type
                  /\ q.host_timestamp.some
                  /\ ~t.nan =>
                        /\ OnLine(q.host_timestamp.v, t.n, m)
                        /\ t = m.te0 => AtAnchor(q.host_timestamp.v, m.tl0)
                        /\ t = m.te1 => AtAnchor(q.host_timestamp.v, m.tl1)
                        /\ 2 * t.n = m.te0.n + m.te1.n => AtMidpoint(q.host_timestamp.v, m)

\* C11: inject_host_timestamp returns a packet whose host_timestamp is
\* tl0 + (tl1 - tl0) (t - te0) / (te1 - te0) and whose other fields are the
\* input's; a packet at te0 is mapped to tl0, one at te1 to tl1, the midpoint
\* device time to the midpoint host time, and device times outside [te0, te1]
\* are extrapolated, for every map generate_sync_map returns.
C11_Projection == Injected => ProjectedBy(result.map.v)

\* The projection is as C11 states for the maps whose device anchors differ
ProjectionOnProperMaps ==
    (Injected /\ ProperMap(result.map.v)) => ProjectedBy(result.map.v)

\* the map (120, 101) .. (420, 160.5) and a data packet at device time 600, beyond
\* te1, projected to 101 + 59.5 * 480 / 300 = 196.2
ProjectionExtrapolated ==
    /\ Injected
    /\ result.map.v.te0 = Num(120)
    /\ result.map.v.te1 = Num(420)
    /\ HostPair(result.map.v.tl0) = <<101, 1>>
    /\ HostPair(result.map.v.tl1) = <<321, 2>>
    /\ \E i \in 1..Len(result.out) :
          /\ result.out[i].emotibit_timestamp = Num(600)
          /\ result.out[i].data_type.variant = "PI"
          /\ result.out[i].host_timestamp = Some([nan |-> FALSE, inf |-> 0, num |-> 981, den |-> 5])

(***************************************************************************)
(* Properties of the record decoder                                        *)
(***************************************************************************)
\* the number a text of decimal digits denotes
RECURSIVE Decimal(_)
Decimal(s) ==
    IF s = <<>> THEN 0
    ELSE 10 * Decimal(SubSeq(s, 1, Len(s) - 1))
           + ((CHOOSE k \in 1..10 : DigitChar[k] = s[Len(s)]) - 1)

\* the number a payload field denotes: blanks around it dropped, an optional '-'
Denoted(field) ==
    LET t == SelectSeq(field, LAMBDA c : c # " ")
    IN  IF t[1] = "-" THEN 0 - Decimal(Tail(t)) ELSE Decimal(t)

\* the payload kind get_data_type has for a tag
KindOf(tag) == (CHOOSE row \in TagTable : row[1] = tag)[3]

\* the payload dt is built from the fields 6 onward of r as the kind of the tag
\* in field 3 says
PayloadUnderTag(r, dt) ==
    LET rest == SubSeq(r, 7, Len(r))
        kind == KindOf(r[4])
    IN  IF kind = "string" THEN dt.payload = join(rest)
        ELSE IF kind = "string_vec" THEN dt.payload = rest
        ELSE /\ Len(dt.payload) = Len(rest)
             /\ \A i \in 1..Len(rest) :
                   dt.payload[i] = IF kind = "f32" THEN Num(Denoted(rest[i]))
                                   ELSE Denoted(rest[i])

\* the record 1126349,49106,10,PI,1,100,156, 7
ExamplePI ==
    << <<"1","1","2","6","3","4","9">>, <<"4","9","1","0","6">>, <<"1","0">>, <<"P","I">>,
       <<"1">>, <<"1","0","0">>, <<"1","5","6">>, <<" ","7"," ">> >>

\* what C12 says of the decode d of the record r
PositionalClaim(r, d) ==
    /\ Len(r) < 6 => d = Err("Missing Column")
    /\ (Len(r) >= 6 /\ d.ok) =>
          /\ d.v.emotibit_timestamp = Num(Decimal(r[1]))
          /\ d.v.packet_id = Decimal(r[2])
          /\ d.v.data_points = Decimal(r[3])
          /\ d.v.version = Decimal(r[5])
          /\ d.v.reliability = Decimal(r[6])
          /\ d.v.host_timestamp = None
          /\ d.v.data_type.variant \notin {"TxLcLm", "TxTlLc"} =>
                PayloadUnderTag(r, d.v.data_type)
    /\ r = ExamplePI =>
          /\ d.ok
          /\ d.v.packet_id = 49106
          /\ d.v.data_points = 10
          /\ d.v.data_type.payload = <<156, 7>>

\* C12: a record of fewer than 6 fields gives the "Missing Column" error; for a
\* record of 6 or more fields that decodes, the device timestamp, sequence id,
\* declared length, version and reliability are the values of fields 0, 1, 2, 4
\* and 5, the payload is decoded from the fields 6 onward under the tag of field
\* 3, host_timestamp is absent and the declared length is not compared with the
\* number of payload elements: 1126349,49106,10,PI,1,100,156, 7 decodes with
\* sequence id 49106, declared length 10 and two payload elements.
C12_PositionalHeader ==
    /\ Len(packets) = 1 => PositionalClaim(record, packets[1])
    /\ result.op = "try_from" => PositionalClaim(record, result.out)

\* the example record decoded from its text: declared length 10, two payload elements
C12_Witness ==
    /\ result.op = "try_from"
    /\ record = ExamplePI
    /\ result.out.ok
    /\ result.out.v.packet_id = 49106
    /\ result.out.v.data_points = 10
    /\ Len(result.out.v.data_type.payload) = 2

IsDigitText(s) == s # <<>> /\ \A i \in 1..Len(s) : \E k \in 1..10 : DigitChar[k] = s[i]

\* the header field is a number of a type whose largest value is max
HeaderNumber(field, max) == IsDigitText(field) /\ Decimal(field) <= max

\* the payload field is a number of the kind: digits between optional blanks,
\* after a '-' if the kind is signed
PayloadNumber(kind, field) ==
    LET t == SelectSeq(field, LAMBDA c : c # " ")
    IN  IF kind # "u32" /\ t # <<>> /\ t[1] = "-" THEN IsDigitText(Tail(t)) ELSE IsDigitText(t)

NumericKinds == {"f32", "u32", "i32"}

\* what C13 says of the decode d of the record r
AllOrNothing(r, d) ==
    (Len(r) >= 6 /\ (\E row \in TagTable : row[1] = r[4] /\ row[3] \in NumericKinds)) =>
        LET kind == KindOf(r[4])
            rest == SubSeq(r, 7, Len(r))
            header == /\ IsDigitText(r[1])
                      /\ IsDigitText(r[2])
                      /\ HeaderNumber(r[3], U8Max)
                      /\ HeaderNumber(r[5], U8Max)
                      /\ HeaderNumber(r[6], U8Max)
            payload == \A i \in 1..Len(rest) : PayloadNumber(kind, rest[i])
        IN  /\ d.ok <=> (header /\ payload)
            /\ d.ok =>
                  /\ Len(d.v.data_type.payload) = Len(rest)
                  /\ \A i \in 1..Len(rest) :
                        d.v.data_type.payload[i] = IF kind = "f32" THEN Num(Denoted(rest[i]))
                                                   ELSE Denoted(rest[i])

\* C13: a record with a numeric-payload tag decodes if and only if its five
\* numeric header fields and every field from index 6 onward parse (the payload
\* fields as the numeric kind of the tag), and then the payload is those values
\* in field order; if any of these fields fails to parse the decode is an error:
\* no packet with a shortened or defaulted payload is produced.
C13_AllOrNothing ==
    /\ Len(packets) = 1 => AllOrNothing(record, packets[1])
    /\ result.op = "try_from" => AllOrNothing(record, result.out)

\* 1126349,49106,10,PI,1,100,5,x,6: the second payload field is not a number, the
\* decode is an error
C13_Witness ==
    /\ Len(packets) = 1
    /\ Len(record) = 9
    /\ SubSeq(record, 1, 6) = SubSeq(ExamplePI, 1, 6)
    /\ SubSeq(record, 7, Len(record)) = << <<"5">>, <<"x">>, <<"6">> >>
    /\ ~packets[1].ok

\* field 3 of r is one of the tags get_data_type has an arm for
Recognized(r) == \E row \in TagTable : row[1] = r[4]

\* the decode d of r, if a packet, reports the tag of field 3 of r, or is a
\* refined TX packet of a record tagged TX
ReportsTag(r, d) ==
    d.ok =>
        \/ as_str(d.v.data_type) = r[4]
        \/ /\ r[4] = <<"T","X">>
           /\ \/ /\ d.v.data_type.variant = "TxLcLm"
                 /\ as_str(d.v.data_type) = <<"T","X","_","L","C","_","L","M">>
              \/ /\ d.v.data_type.variant = "TxTlLc"
                 /\ as_str(d.v.data_type) = <<"T","X","_","T","L","_","L","C">>

\* the record has six fields or more and its five numeric header fields parse
HeaderDecodes(r) ==
    /\ Len(r) >= 6
    /\ IsDigitText(r[1])
    /\ IsDigitText(r[2])
    /\ HeaderNumber(r[3], U8Max)
    /\ HeaderNumber(r[5], U8Max)
    /\ HeaderNumber(r[6], U8Max)

\* what the amended C14 says of the decode d of the record r
TagClaim(r, d) ==
    /\ ReportsTag(r, d)
    /\ (Len(r) >= 4 /\ ~Recognized(r)) =>
          /\ ~d.ok
          /\ HeaderDecodes(r) => d = Err("Unknown Type")

\* C14 amended: for every record that decodes, as_str of the payload variant is
\* the text of field 3, except for the refined TX packets (source tag TX, variants
\* TxLcLm and TxTlLc); a record whose field 3 is not a recognized tag never
\* yields a packet, and it fails with the unknown-type error when it has six
\* fields or more and its five numeric header fields parse (otherwise with the
\* missing-column or the header's parse error).
C14_TagConsistency ==
    /\ Len(packets) = 1 => TagClaim(record, packets[1])
    /\ result.op = "try_from" => TagClaim(record, result.out)

\* what C14 says of the decode d of the record r (r having its six header fields)
TagClaimed(r, d) ==
    /\ ReportsTag(r, d)
    /\ (Len(r) >= 6 /\ ~Recognized(r)) => d = Err("Unknown Type")

\* C14 as claimed: as above, but a record (of six fields or more) whose field 3
\* is not a recognized tag always fails with the unknown-type error.
C14_TagConsistencyClaimed ==
    /\ Len(packets) = 1 => TagClaimed(record, packets[1])
    /\ result.op = "try_from" => TagClaimed(record, result.out)

\* a record tagged B% decoded by get_packets: the variant BATLV reports B%
C14_Witness ==
    /\ Len(packets) = 1
    /\ Len(record) >= 6
    /\ record[4] = <<"B","%">>
    /\ packets[1].ok
    /\ packets[1].v.data_type.variant = "BATLV"
    /\ as_str(packets[1].v.data_type) = <<"B","%">>

(***************************************************************************)
(* Properties of the triples of find_syncs                                 *)
(***************************************************************************)
FoundSyncs == result.op = "find_syncs" /\ ~result.out.panicked /\ result.out.ret.ok

\* the indices in F of the packets the triple t was read from (every record of
\* the log has its own device time)
UsedBy(t) ==
    {i \in 1..Len(HandshakeSeq) :
        HandshakeSeq[i].emotibit_timestamp \in {t.rd, t.ts_received, t.ak}}

\* the index in F, and in the log, of the RD packet of the triple t
StartOf(t) == CHOOSE i \in 1..Len(HandshakeSeq) : HandshakeSeq[i].emotibit_timestamp = t.rd

LogIndexOf(t) ==
    CHOOSE i \in 1..Len(packets) : packets[i].ok /\ packets[i].v.emotibit_timestamp = t.rd

\* C15: the triples find_syncs returns never share a packet: each is read from
\* three consecutive packets of F, the windows of two triples start at least 3
\* apart, so that no RD, TL or AK packet is in two triples, there are at most
\* floor(Len(F) / 3) triples, and the triples are in the order of their RD
\* packets in the log.
C15_DisjointTriples ==
    FoundSyncs =>
        LET T == result.out.ret.v
        IN  /\ 3 * Len(T) <= Len(HandshakeSeq)
            /\ \A j \in 1..Len(T) :
                  /\ UsedBy(T[j]) = {StartOf(T[j]), StartOf(T[j]) + 1, StartOf(T[j]) + 2}
                  /\ HandshakeSeq[StartOf(T[j])].data_type.variant = "RD"
            /\ \A j, k \in 1..Len(T) :
                  j < k =>
                    /\ StartOf(T[k]) - StartOf(T[j]) >= 3
                    /\ UsedBy(T[j]) \cap UsedBy(T[k]) = {}
                    /\ LogIndexOf(T[j]) < LogIndexOf(T[k])

\* two triples from a log of two exchanges
C15_Witness ==
    /\ FoundSyncs
    /\ Len(result.out.ret.v) = 2
    /\ StartOf(result.out.ret.v[1]) = 1
    /\ StartOf(result.out.ret.v[2]) = 4

====
